---- MODULE Spec2Model ----
(***************************************************************************)
(* Model of cosmic17.wire: the `value` declaration decorator, the parser   *)
(* registry, the wire_all injection pass and the constructor wrapper       *)
(* new__init__ that wire_all installs on every class owning declarations.  *)
(*                                                                         *)
(* A Declaration object is a record of objs; _to_wire holds indices into   *)
(* objs.  The accessors of one Declaration share their __name__ and their  *)
(* owning scope, as the `@x.setter def x` idiom of the library requires;   *)
(* an accessor slot holds how the function got there (NoFunc, "def" for    *)
(* the decorated function, "chained" for a function attached by            *)
(* setter/getter/deleter).  Every operation is one action; what it did, in *)
(* order, is kept in `log` (the events of the last operation only).        *)
(*                                                                         *)
(* Three specifications over the same state and the same operations, each  *)
(* a way the library is used:                                              *)
(*   Spec      declarations are made at import, wire_all runs once, then   *)
(*             instances are constructed (the use the documentation asks   *)
(*             for), with set_parser at any time;                          *)
(*   SpecWire  wire_all runs repeatedly, between declarations, over class, *)
(*             module-level, orphaned and ill-scoped declarations;         *)
(*   SpecDecl  declarations and their chained accessors only.              *)
(***************************************************************************)
EXTENDS Integers, Sequences, FiniteSets, TLC

\* ----------------------------------------------------------------- bounds
MaxDecl == 2
MaxWire == 2

\* ------------------------------------------------------------ input sets
Names == {"i", "bar"}
\* The path a declaration named n is bound to, as in tests/class_test_sanity.py.
PathOf(n) == IF n = "i" THEN "path.to.i" ELSE "path.to.bar"
Paths == {PathOf(n) : n \in Names}
Classes == {"Foo", "Opt"}
Scopes == Classes \cup {"module", "orphan", "funny"}
Parsers == {"default_parser", "ok", "lookup", "raising", "partial"}
NoFunc == "none"
Absent == "<absent>"
None == "None"
Five == "5"
Dflt == "dflt"

\* Original constructors of the classes under injection: Foo.__init__(self, i)
\* and Opt.__init__(self, i=Dflt, bar=Dflt).
ClassInit ==
  [c \in Classes |->
     IF c = "Foo" THEN << [name |-> "i", required |-> TRUE] >>
     ELSE << [name |-> "i", required |-> FALSE],
             [name |-> "bar", required |-> FALSE] >>]

\* Every name a keyword argument of a constructor call can have.
ArgNames == Names \cup {"self", "args", "kwargs"}

\* ------------------------------------------------------------- the state
VARIABLES objs, to_wire, parser, ctor, injected, log, nWire, installed
vars == <<objs, to_wire, parser, ctor, injected, log, nWire, installed>>

NoAttrs == [n \in Names |-> Absent]

\* One entry of `log.events`.
Ev(kind, decl, name, path, val) ==
  [kind |-> kind, decl |-> decl, name |-> name, path |-> path, val |-> val]

\* What the last operation was: its name, the name or class it was given,
\* the Declaration it returned (0: none), the caller's constructor arguments
\* (pos positional values, kw keyword names), whether it raised, its events.
Log(op, arg, ret, raised, events) ==
  [op |-> op, arg |-> arg, ret |-> ret, pos |-> 0, kw |-> {},
   raised |-> raised, events |-> events, attrs |-> NoAttrs]


\* ------------------------------------------------------------ the parser
PathValue(path) == IF path = "path.to.i" THEN "v_i" ELSE "v_bar"

\* value.parser(path): ok = FALSE when the parser raises.
parser_call(p, path) ==
  CASE p = "default_parser" -> [ok |-> TRUE, val |-> None]
    [] p = "ok" -> [ok |-> TRUE, val |-> "ok"]
    [] p = "lookup" -> [ok |-> TRUE, val |-> PathValue(path)]
    [] p = "raising" -> [ok |-> FALSE, val |-> None]
    [] OTHER -> IF path = "path.to.bar" THEN [ok |-> FALSE, val |-> None]
                ELSE [ok |-> TRUE, val |-> PathValue(path)]

Init ==
  /\ objs = << >>
  /\ to_wire = << >>
  /\ parser = "default_parser"
  /\ ctor = [c \in Classes |-> << >>]
  /\ injected = << >>
  /\ log = Log("init", "", 0, FALSE, << >>)
  /\ nWire = 0
  /\ installed = "default_parser"

\* ----------------------------------------------------- the declarations
\* value(path)(func): __init__ then __rcall__.  func has the name `name`, the
\* owning scope `scope` and lp parameters besides self/cls; a strict func raises
\* when it is handed None.
rcall(path, name, scope, lp, strict) ==
  /\ Len(objs) < MaxDecl
  /\ IF lp > 1
       THEN /\ log' = Log("decorate", name, 0, TRUE, << >>)
            /\ UNCHANGED <<objs, to_wire, injected>>
       ELSE /\ objs' = Append(objs,
                 [path |-> path, name |-> name, scope |-> scope,
                  fget |-> IF lp = 0 THEN "def" ELSE NoFunc,
                  fset |-> IF lp = 1 THEN "def" ELSE NoFunc,
                  fdel |-> NoFunc, strict |-> strict, rcallReset |-> FALSE])
            /\ to_wire' = Append(to_wire, Len(objs) + 1)
            /\ injected' = Append(injected, [count |-> 0, last |-> Absent, by |-> "none"])
            /\ log' = Log("decorate", name, Len(objs) + 1, FALSE, << >>)
  /\ UNCHANGED <<parser, ctor, nWire, installed>>

\* @value(PathOf(name)) on a method of a class (a getter) or on a module-level
\* function of one parameter, before wire_all has run.
Decorate ==
  \E name \in Names, scope \in Classes \cup {"module"} :
    /\ nWire = 0
    /\ rcall(PathOf(name), name, scope, IF scope = "module" THEN 1 ELSE 0, FALSE)

\* @value(PathOf(name)) on a method of Foo of any parameter count.
DecorateAny ==
  \E name \in Names, lp \in 0..2 : rcall(PathOf(name), name, "Foo", lp, FALSE)

\* @value(PathOf(name)) on a method of a class (its name does not matter to
\* wire_all) or on a function that is module-level (strict or not), orphaned
\* or ill-scoped.
DecorateScoped ==
  \E name \in Names, scope \in Scopes, lp \in 0..1, strict \in BOOLEAN :
    /\ scope \in Classes => name = "i" /\ lp = 0
    /\ scope \in {"orphan", "funny"} => name = "i" /\ lp = 1
    /\ strict => scope = "module" /\ name = "i" /\ lp = 1
    /\ rcall(PathOf(name), name, scope, lp, strict)

\* setter that registers the Declaration again.
setter_registering(d) ==
  /\ objs' = [objs EXCEPT ![d].fset = "chained"]
  /\ to_wire' = Append(to_wire, d)
  /\ log' = Log("setter", objs[d].name, d, FALSE, << >>)
  /\ UNCHANGED <<parser, ctor, injected, nWire, installed>>

\* value.setter / value.getter / value.deleter: replace one slot, return self.
setter(d) ==
  /\ objs' = [objs EXCEPT ![d].fset = "chained"]
  /\ log' = Log("setter", objs[d].name, d, FALSE, << >>)
  /\ UNCHANGED <<to_wire, parser, ctor, injected, nWire, installed>>

getter(d) ==
  /\ objs' = [objs EXCEPT ![d].fget = "chained"]
  /\ log' = Log("getter", objs[d].name, d, FALSE, << >>)
  /\ UNCHANGED <<to_wire, parser, ctor, injected, nWire, installed>>

deleter(d) ==
  /\ objs' = [objs EXCEPT ![d].fdel = "chained"]
  /\ log' = Log("deleter", objs[d].name, d, FALSE, << >>)
  /\ UNCHANGED <<to_wire, parser, ctor, injected, nWire, installed>>

\* `@x.setter def x(self, x)` right after the getter x of a class.
ChainSetter ==
  \E d \in DOMAIN objs :
    /\ nWire = 0
    /\ objs[d].fget # NoFunc /\ objs[d].fset = NoFunc /\ objs[d].scope \in Classes
    /\ setter(d)

ChainSetterAny == \E d \in DOMAIN objs : setter(d)
ChainGetter == \E d \in DOMAIN objs : getter(d)
ChainDeleter == \E d \in DOMAIN objs : deleter(d)

\* --------------------------------------------------------------- set_parser
\* set_parser that binds fn somewhere value.parser is not read from.
set_parser_unbound(fn) ==
  /\ installed' = fn
  /\ log' = Log("set_parser", fn, 0, FALSE, << >>)
  /\ UNCHANGED <<objs, to_wire, parser, ctor, injected, nWire>>

set_parser(fn) ==
  /\ parser' = fn
  /\ installed' = fn
  /\ log' = Log("set_parser", fn, 0, FALSE, << >>)
  /\ UNCHANGED <<objs, to_wire, ctor, injected, nWire>>

SetParser == \E fn \in {"ok", "lookup", "raising"} : set_parser(fn)
SetParserWire == \E fn \in {"lookup", "partial", "raising"} : set_parser(fn)

\* ----------------------------------------------------------------- wire_all
\* function_injection that hands the write accessor the path, not the value.
function_injection_path(d, st) ==
  LET o == st.objs[d]
      r == parser_call(parser, o.path)
  IN IF o.fset = NoFunc THEN st
     ELSE IF ~r.ok
       THEN [st EXCEPT !.raised = TRUE,
                       !.events = Append(@, Ev("fparse", d, o.name, o.path, "<raise>"))]
       ELSE [st EXCEPT
               !.injected[d] = [count |-> @.count + 1, last |-> o.path, by |-> installed],
               !.objs[d].rcallReset = TRUE,
               !.events = @ \o << Ev("fparse", d, o.name, o.path, r.val),
                                  Ev("fset", d, o.name, o.path, o.path) >>]

\* Function injection of the module-level declaration d (lines 291-299).
function_injection(d, st) ==
  LET o == st.objs[d]
      r == parser_call(parser, o.path)
  IN IF o.fset = NoFunc THEN st
     ELSE IF ~r.ok
       THEN [st EXCEPT !.raised = TRUE,
                       !.events = Append(@, Ev("fparse", d, o.name, o.path, "<raise>"))]
     ELSE IF o.strict /\ r.val = None
       THEN [st EXCEPT !.raised = TRUE,
                       !.events = @ \o << Ev("fparse", d, o.name, o.path, r.val),
                                          Ev("fset_raise", d, o.name, o.path, r.val) >>]
       ELSE [st EXCEPT
               !.injected[d] = [count |-> @.count + 1, last |-> r.val, by |-> installed],
               !.objs[d].rcallReset = TRUE,
               !.events = @ \o << Ev("fparse", d, o.name, o.path, r.val),
                                  Ev("fset", d, o.name, o.path, r.val) >>]

\* The loop over _to_wire (lines 272-301), from its k-th entry on.
RECURSIVE wire_loop(_, _)
wire_loop(k, st) ==
  IF k > Len(to_wire) \/ st.raised THEN st
  ELSE LET d == to_wire[k]
           o == st.objs[d]
       IN wire_loop(k + 1,
            IF o.scope = "orphan" THEN st
            ELSE IF o.scope \in Classes
              THEN [st EXCEPT !.cls_map[o.scope] = Append(@, d),
                              !.order = IF st.cls_map[o.scope] = << >>
                                        THEN Append(@, o.scope) ELSE @]
            ELSE IF o.scope = "module" THEN function_injection(d, st)
            ELSE [st EXCEPT !.raised = TRUE,
                            !.events = Append(@, Ev("illscoped", d, o.name, "", ""))])

\* The loop over cls_map (lines 304-307), from the k-th class on.
RECURSIVE wrap_loop(_, _)
wrap_loop(k, st) ==
  IF k > Len(st.order) THEN st
  ELSE LET c == st.order[k]
       IN wrap_loop(k + 1,
            [st EXCEPT !.ctor[c] = Append(@, st.cls_map[c]),
                       !.events = Append(@, Ev("wrap", 0, c, "", ""))])

\* wire_result that replaces the constructors even when the pass raised.
wire_result_wraps_anyway ==
  LET st0 == [objs |-> objs, injected |-> injected, ctor |-> ctor,
              cls_map |-> [c \in Classes |-> << >>], order |-> << >>,
              raised |-> FALSE, events |-> << >>]
  IN wrap_loop(1, wire_loop(1, st0))

wire_result ==
  LET st0 == [objs |-> objs, injected |-> injected, ctor |-> ctor,
              cls_map |-> [c \in Classes |-> << >>], order |-> << >>,
              raised |-> FALSE, events |-> << >>]
      st1 == wire_loop(1, st0)
  IN IF st1.raised THEN st1 ELSE wrap_loop(1, st1)

\* wire_all that consumes the registry.
wire_all_consuming ==
  /\ nWire' = nWire + 1
  /\ to_wire' = << >>
  /\ LET st == wire_result
     IN /\ objs' = st.objs
        /\ injected' = st.injected
        /\ ctor' = st.ctor
        /\ log' = Log("wire_all", "", 0, st.raised, st.events)
  /\ UNCHANGED <<parser, installed>>

wire_all ==
  /\ nWire' = nWire + 1
  /\ LET st == wire_result
     IN /\ objs' = st.objs
        /\ injected' = st.injected
        /\ ctor' = st.ctor
        /\ log' = Log("wire_all", "", 0, st.raised, st.events)
  /\ UNCHANGED <<to_wire, parser, installed>>

\* ------------------------------------------------------------- new__init__
\* attr_map (lines 181-186): accessor name -> Declaration, the last one wins.
attr_map(values) ==
  [n \in {objs[values[j]].name : j \in DOMAIN values} |->
     values[CHOOSE j \in DOMAIN values :
              /\ objs[values[j]].name = n
              /\ \A k \in DOMAIN values : objs[values[k]].name = n => k <= j]]

\* The path line 201 hands to the parser for `param`: value_ there is the
\* variable the attr-map loop (line 183) left behind, the last Declaration of
\* the group, whatever `param` is.
injection_path(values, param) == objs[values[Len(values)]].path

\* signature.parameters of cls__init__ (line 170): the original constructor's
\* under the innermost wrapper, (self, *args, **kwargs) under the others.
signature(c, level) ==
  IF level = 1
    THEN <<"self">> \o [j \in DOMAIN ClassInit[c] |-> ClassInit[c][j].name]
    ELSE <<"self", "args", "kwargs">>

\* bound_arguments with only the keywords bound, the positional values missed.
bound_arguments_kwonly(c, level, pos, kwargs) ==
  IF level = 1
    THEN {"self"} \cup {n \in ArgNames : kwargs[n] # Absent}
    ELSE {"self"} \cup (IF \E n \in ArgNames : kwargs[n] # Absent
                        THEN {"kwargs"} ELSE {})

\* Keys of signature.bind_partial(self, *args, **kwargs).arguments (line 177).
bound_arguments(c, level, pos, kwargs) ==
  IF level = 1
    THEN {"self"} \cup {ClassInit[c][j].name : j \in 1..pos}
                  \cup {n \in ArgNames : kwargs[n] # Absent}
    ELSE {"self"} \cup (IF pos > 0 THEN {"args"} ELSE {})
                  \cup (IF \E n \in ArgNames : kwargs[n] # Absent
                        THEN {"kwargs"} ELSE {})

\* constructor_injection that injects None when the parser raises.
RECURSIVE constructor_injection_none(_, _, _, _)
constructor_injection_none(values, params, k, st) ==
  IF k > Len(params) THEN st
  ELSE LET param == params[k]
           am == attr_map(values)
       IN IF param \notin DOMAIN am \/ param \in st.arguments
            THEN constructor_injection_none(values, params, k + 1, st)
            ELSE LET path == injection_path(values, param)
                     r == parser_call(parser, path)
                 IN constructor_injection_none(values, params, k + 1,
                      [st EXCEPT
                         !.kwargs[param] = r.val,
                         !.arguments = @ \cup {param},
                         !.events = @ \o
                           << Ev("cparse", am[param], param, path,
                                 IF r.ok THEN r.val ELSE "<raise>"),
                              Ev("kwarg", am[param], param, path, r.val) >>])

\* Constructor injection (lines 191-209), from the k-th parameter on.
RECURSIVE constructor_injection(_, _, _, _)
constructor_injection(values, params, k, st) ==
  IF k > Len(params) THEN st
  ELSE LET param == params[k]
           am == attr_map(values)
       IN IF param \notin DOMAIN am \/ param \in st.arguments
            THEN constructor_injection(values, params, k + 1, st)
            ELSE LET path == injection_path(values, param)
                     r == parser_call(parser, path)
                 IN constructor_injection(values, params, k + 1,
                      IF r.ok
                        THEN [st EXCEPT
                                !.kwargs[param] = r.val,
                                !.arguments = @ \cup {param},
                                !.events = @ \o
                                  << Ev("cparse", am[param], param, path, r.val),
                                     Ev("kwarg", am[param], param, path, r.val) >>]
                        ELSE [st EXCEPT
                                !.events = Append(@,
                                   Ev("cparse", am[param], param, path, "<raise>"))])

\* setter_injection without the `attr in arguments` skip of lines 221-223.
RECURSIVE setter_injection_noskip(_, _, _, _)
setter_injection_noskip(values, arguments, k, st) ==
  IF k > Len(values) THEN st
  ELSE LET d == values[k]
           o == objs[d]
           r == parser_call(parser, o.path)
       IN setter_injection_noskip(values, arguments, k + 1,
            IF o.fset = NoFunc \/ ~r.ok THEN st
            ELSE [st EXCEPT
                    !.attrs[o.name] = r.val,
                    !.events = @ \o << Ev("sparse", d, o.name, o.path, r.val),
                                       Ev("fset", d, o.name, o.path, r.val) >>])

\* Setter injection (lines 214-231), from the k-th Declaration of the group on.
RECURSIVE setter_injection(_, _, _, _)
setter_injection(values, arguments, k, st) ==
  IF k > Len(values) THEN st
  ELSE LET d == values[k]
           o == objs[d]
           r == parser_call(parser, o.path)
       IN setter_injection(values, arguments, k + 1,
            IF o.fset = NoFunc \/ o.name \in arguments THEN st
            ELSE IF r.ok /\ o.strict /\ r.val = None
              THEN [st EXCEPT
                      !.events = @ \o << Ev("sparse", d, o.name, o.path, r.val),
                                         Ev("fset_raise", d, o.name, o.path, r.val) >>]
            ELSE IF r.ok
              THEN [st EXCEPT
                      !.attrs[o.name] = r.val,
                      !.events = @ \o << Ev("sparse", d, o.name, o.path, r.val),
                                         Ev("fset", d, o.name, o.path, r.val) >>]
              ELSE [st EXCEPT
                      !.events = Append(@, Ev("sparse", d, o.name, o.path, "<raise>"))])

\* The class's original __init__: binds its parameters (a TypeError when a
\* required one is missing, one is given twice or a keyword is unknown) and
\* stores them; an attribute that is no parameter starts as None.
original_init(c, pos, kwargs) ==
  LET P == ClassInit[c]
      pnames == {P[j].name : j \in DOMAIN P}
      idx(n) == CHOOSE j \in DOMAIN P : P[j].name = n
      recv(n) == IF idx(n) <= pos THEN Five
                 ELSE IF kwargs[n] # Absent THEN kwargs[n] ELSE Dflt
      bad == \/ pos > Len(P)
             \/ \E n \in ArgNames : kwargs[n] # Absent /\ n \notin pnames
             \/ \E j \in DOMAIN P :
                  \/ j <= pos /\ kwargs[P[j].name] # Absent
                  \/ j > pos /\ kwargs[P[j].name] = Absent /\ P[j].required
  IN IF bad THEN [raised |-> TRUE, attrs |-> NoAttrs, events |-> << >>]
     ELSE [raised |-> FALSE,
           attrs |-> [n \in Names |-> IF n \in pnames THEN recv(n) ELSE None],
           events |-> [j \in DOMAIN P |->
                         Ev("recv", 0, P[j].name, "", recv(P[j].name))]]

\* cls.__init__ of class c when `level` wrappers are installed.
RECURSIVE new__init__(_, _, _, _)
new__init__(c, level, pos, kwargs) ==
  IF level = 0 THEN original_init(c, pos, kwargs)
  ELSE LET values == ctor[c][level]
           arguments == bound_arguments(c, level, pos, kwargs)
           ci == constructor_injection(values, signature(c, level), 1,
                   [kwargs |-> kwargs, arguments |-> arguments, events |-> << >>])
           inner == new__init__(c, level - 1, pos, ci.kwargs)
       IN IF inner.raised
            THEN [inner EXCEPT !.events = ci.events \o @]
            ELSE setter_injection(values, ci.arguments, 1,
                   [inner EXCEPT !.events = ci.events \o @])

\* C(*args, **kwargs) for a class C whose __init__ wire_all has replaced: pos
\* positional values, keywords kw.
construct(c, pos, kw) ==
  Len(ctor[c]) > 0 /\
  LET r == new__init__(c, Len(ctor[c]), pos,
                       [n \in ArgNames |-> IF n \in kw THEN Five ELSE Absent])
  IN /\ log' = [op |-> "construct", arg |-> c, ret |-> 0, pos |-> pos,
                kw |-> kw, raised |-> r.raised, events |-> r.events,
                attrs |-> r.attrs]
     /\ UNCHANGED <<objs, to_wire, parser, ctor, injected, nWire, installed>>

Construct ==
  \E c \in Classes :
    \E pos \in 0..Len(ClassInit[c]) :
      \E kw \in SUBSET {ClassInit[c][j].name : j \in (pos + 1)..Len(ClassInit[c])} :
        construct(c, pos, kw)

ConstructNoArgs == \E c \in Classes : construct(c, 0, {})

WireOnce == nWire = 0 /\ wire_all
WireAgain == nWire < MaxWire /\ wire_all

Next == Decorate \/ ChainSetter \/ SetParser \/ WireOnce \/ Construct
Spec == Init /\ [][Next]_vars

NextWire == DecorateScoped \/ SetParserWire \/ WireAgain \/ ConstructNoArgs
SpecWire == Init /\ [][NextWire]_vars

NextDecl == DecorateAny \/ ChainSetterAny \/ ChainGetter \/ ChainDeleter
SpecDecl == Init /\ [][NextDecl]_vars

\* ================================================================= claims
\* Readings of `log`, the record of the last operation.
IsConstruct == log.op = "construct"
EvIdx == DOMAIN log.events
EvAt(k) == log.events[k]
\* The parameters the caller of the constructor supplied, by position or keyword.
Supplied == {ClassInit[log.arg][j].name : j \in 1..log.pos} \cup log.kw
ParamNames(c) == {ClassInit[c][j].name : j \in DOMAIN ClassInit[c]}
\* The declarations wire_all grouped for class c (the wrapper around the
\* original constructor holds them).
Group(c) == {ctor[c][1][j] : j \in DOMAIN ctor[c][1]}
CountEv(kind, d) == Cardinality({k \in EvIdx : EvAt(k).kind = kind /\ EvAt(k).decl = d})
\* What a call of parser p on a path yields, a raise included.
Outcome(p, path) == IF parser_call(p, path).ok THEN parser_call(p, path).val ELSE "<raise>"
Total(p) == \A path \in Paths : parser_call(p, path).ok

\* C1: every constructor parameter that wire_all's wrapper injects receives
\* parser(d.path) of the declaration d whose accessor name is that parameter,
\* both as the keyword added and as the value the original constructor gets.
C1_InjectedParamUsesOwnPath ==
  IsConstruct =>
    \A k \in EvIdx :
      EvAt(k).kind = "kwarg" =>
        /\ EvAt(k).val = Outcome(parser, objs[EvAt(k).decl].path)
        /\ \E r \in EvIdx : /\ EvAt(r).kind = "recv"
                            /\ EvAt(r).name = EvAt(k).name
                            /\ EvAt(r).val = Outcome(parser, objs[EvAt(k).decl].path)

\* The two channels of a declaration d of the constructed class, and whether
\* some channel is open to it at all.
ViaConstructor(d) == \E k \in EvIdx : EvAt(k).kind = "kwarg" /\ EvAt(k).name = objs[d].name
ViaSetter(d) == CountEv("fset", d) > 0
Injectable(c, d) == objs[d].name \in ParamNames(c) \/ objs[d].fset # NoFunc

\* C2: in a construction after wire_all no declaration is served through both
\* channels (a constructor keyword for its name and a call of its write
\* accessor), no channel is used twice, and every value delivered is what the
\* parser returned to that attempt; when the caller supplied none of the
\* injectable parameters, the parser raises on no path and the construction
\* completes, every injectable declaration is served through exactly one.
C2_OneChannelPerDeclaration ==
  IsConstruct =>
    /\ \A d \in Group(log.arg) :
         /\ ~(ViaConstructor(d) /\ ViaSetter(d))
         /\ CountEv("fset", d) <= 1
         /\ Cardinality({k \in EvIdx : EvAt(k).kind = "kwarg"
                                       /\ EvAt(k).name = objs[d].name}) <= 1
         /\ ( /\ Total(parser)
              /\ ~log.raised
              /\ Supplied \cap {objs[e].name : e \in Group(log.arg)} = {}
              /\ Injectable(log.arg, d) )
            => (ViaConstructor(d) \/ ViaSetter(d))
    /\ \A k \in EvIdx :
         EvAt(k).kind \in {"kwarg", "fset"} =>
           /\ k > 1
           /\ EvAt(k - 1).kind = (IF EvAt(k).kind = "kwarg" THEN "cparse" ELSE "sparse")
           /\ EvAt(k - 1).val = EvAt(k).val
           /\ EvAt(k).val = Outcome(parser, EvAt(k - 1).path)

\* C2 witness: a completed construction without arguments in which one
\* declaration was constructor-injected and another setter-injected.
C2_Witness ==
  /\ IsConstruct /\ ~log.raised /\ Supplied = {} /\ Total(parser)
  /\ \E d, e \in Group(log.arg) :
       /\ ViaConstructor(d) /\ objs[d].fset # NoFunc
       /\ ViaSetter(e) /\ e # d

\* C3: when the caller supplies the parameter named by declaration d, the
\* parser is not called with d.path in either phase, d's write accessor is not
\* called, and the original constructor receives the caller's value.
C3_ExplicitArgumentPrecedence ==
  IsConstruct =>
    \A d \in Group(log.arg) :
      objs[d].name \in Supplied =>
        /\ \A k \in EvIdx :
             EvAt(k).kind \in {"cparse", "sparse"} => EvAt(k).path # objs[d].path
        /\ CountEv("fset", d) = 0
        /\ ~log.raised =>
             \E r \in EvIdx : /\ EvAt(r).kind = "recv"
                              /\ EvAt(r).name = objs[d].name
                              /\ EvAt(r).val = Five

\* The original constructor of class c has no required parameter.
NoRequired(c) == \A j \in DOMAIN ClassInit[c] : ~ClassInit[c][j].required

\* C4: with a parser that raises on every path, constructing a class whose
\* original constructor has no required parameter completes, calls no write
\* accessor, adds no keyword, and leaves every attribute as the original
\* constructor set it from the caller's arguments.
C4_RaisingParserIsNoOp ==
  (IsConstruct /\ parser = "raising" /\ NoRequired(log.arg)) =>
    /\ ~log.raised
    /\ \A k \in EvIdx : EvAt(k).kind \notin {"fset", "fset_raise", "kwarg"}
    /\ \A n \in Names :
         log.attrs[n] = IF n \notin ParamNames(log.arg) THEN None
                        ELSE IF n \in Supplied THEN Five ELSE Dflt

\* C4 witness: such a construction in which both phases asked the parser.
C4_Witness ==
  /\ IsConstruct /\ parser = "raising" /\ NoRequired(log.arg)
  /\ \E k, m \in EvIdx : /\ EvAt(k).kind = "cparse" /\ EvAt(k).val = "<raise>"
                         /\ EvAt(m).kind = "sparse" /\ EvAt(m).val = "<raise>"

\* C6 scenario: the parser returns "ok" everywhere, Foo owns exactly a
\* read-only declaration i and a read/write declaration bar, wire_all has run,
\* and the last operation was Foo(5).
C6_Scenario ==
  /\ IsConstruct /\ log.arg = "Foo" /\ log.pos = 1 /\ log.kw = {}
  /\ parser = "ok"
  /\ Len(ctor["Foo"]) = 1 /\ Len(ctor["Foo"][1]) = 2
  /\ \E a, b \in Group("Foo") :
       /\ objs[a].name = "i" /\ objs[a].fget # NoFunc /\ objs[a].fset = NoFunc
       /\ objs[b].name = "bar" /\ objs[b].fget # NoFunc /\ objs[b].fset # NoFunc

\* C6 as stated: in the scenario, Foo(5) raises.
C6_PositionalCallRaises == C6_Scenario => log.raised

\* C6 amended: in the scenario, Foo(5) completes; the original constructor gets
\* i = 5, the parser is not asked for i, and bar is set to "ok" by one call of
\* its write accessor.
C6_PositionalCallCompletes ==
  C6_Scenario =>
    /\ ~log.raised
    /\ log.attrs = [n \in Names |-> IF n = "i" THEN Five ELSE "ok"]
    /\ \E r \in EvIdx : EvAt(r).kind = "recv" /\ EvAt(r).name = "i" /\ EvAt(r).val = Five
    /\ \A k \in EvIdx : EvAt(k).kind \in {"cparse", "sparse", "kwarg"} => EvAt(k).name # "i"
    /\ Cardinality({k \in EvIdx : EvAt(k).kind = "fset" /\ EvAt(k).name = "bar"}) = 1

\* C6 witness: the scenario is reached.
C6_Witness == C6_Scenario

\* Every parser call of the last operation returned what the parser registered
\* at that moment returns, and every value function injection stored is what
\* the parser of its wire_all returned.
C8_ParserAtAttempt ==
  /\ \A k \in EvIdx :
       EvAt(k).kind \in {"cparse", "sparse", "fparse"} =>
         EvAt(k).val = Outcome(installed, EvAt(k).path)
  /\ \A d \in DOMAIN injected :
       injected[d].count > 0 => injected[d].last = Outcome(injected[d].by, objs[d].path)

\* C8: every parser call of an operation returns what the parser registered at
\* that moment returns (the last one handed to set_parser, default_parser
\* before), a value function injection stored stays what the parser of its
\* wire_all returned, and set_parser changes neither the stored values nor the
\* declarations nor the wrappers.
C8_ParserReadAtEachAttempt ==
  /\ []C8_ParserAtAttempt
  /\ [][log'.op = "set_parser" =>
          /\ injected' = injected /\ objs' = objs /\ ctor' = ctor
          /\ to_wire' = to_wire]_vars

\* C8 witness: a value injected by wire_all under one parser is still stored
\* after set_parser installed another, whose results a later construction got.
C8_Witness ==
  /\ IsConstruct
  /\ \E d \in DOMAIN injected :
       /\ injected[d].count > 0
       /\ injected[d].by # installed
       /\ injected[d].last # Outcome(installed, objs[d].path)
  /\ \E k \in EvIdx : /\ EvAt(k).kind \in {"kwarg", "fset"}
                      /\ EvAt(k).val = Outcome(installed, EvAt(k).path)

\* Readings of the registry.
Registered == {to_wire[j] : j \in DOMAIN to_wire}
PosOf(d) == CHOOSE j \in DOMAIN to_wire : to_wire[j] = d
FunctionInjected(d) == objs[d].scope = "module" /\ objs[d].fset # NoFunc

\* C5: in one wire_all call every module-level declaration with a write
\* accessor has the parser called once with its own path and its write
\* accessor called once with the value that call returned (at most once each
\* when the call raised further on), and no constructor is replaced before
\* the last of these calls.
C5_FunctionInjectionBeforeWrapping ==
  log.op = "wire_all" =>
    /\ \A d \in Registered :
         FunctionInjected(d) =>
           /\ CountEv("fparse", d) <= 1 /\ CountEv("fset", d) <= 1
           /\ ~log.raised => CountEv("fparse", d) = 1 /\ CountEv("fset", d) = 1
    /\ \A k \in EvIdx :
         /\ EvAt(k).kind = "fparse" => EvAt(k).path = objs[EvAt(k).decl].path
         /\ EvAt(k).kind = "fset" =>
              /\ k > 1
              /\ EvAt(k - 1).kind = "fparse" /\ EvAt(k - 1).decl = EvAt(k).decl
              /\ EvAt(k).val = EvAt(k - 1).val
              /\ EvAt(k).val = Outcome(parser, objs[EvAt(k).decl].path)
              /\ injected[EvAt(k).decl].last = EvAt(k).val
         /\ EvAt(k).kind = "wrap" =>
              \A m \in EvIdx :
                EvAt(m).kind \in {"fparse", "fset", "fset_raise"} => m < k

\* C5 witness: a wire_all call that injected a function and replaced a
\* constructor.
C5_Witness ==
  /\ log.op = "wire_all" /\ ~log.raised
  /\ \E k, m \in EvIdx : EvAt(k).kind = "fset" /\ EvAt(m).kind = "wrap"

\* Every Declaration is in the registry exactly once.
C7_RegisteredOnce ==
  /\ Len(to_wire) = Len(objs)
  /\ \A d \in DOMAIN objs : Cardinality({j \in DOMAIN to_wire : to_wire[j] = d}) = 1

\* C7: every Declaration is in the registry exactly once, through the
\* decoration that made it; setter, getter and deleter leave the registry and
\* every other Declaration alone, set only their own slot of the Declaration
\* they are called on and return that Declaration.
C7_ChainingKeepsRegistry ==
  /\ []C7_RegisteredOnce
  /\ [][ /\ log'.op = "decorate" =>
              IF log'.raised THEN to_wire' = to_wire /\ objs' = objs
              ELSE /\ to_wire' = Append(to_wire, log'.ret)
                   /\ log'.ret \notin Registered
         /\ log'.op \in {"setter", "getter", "deleter"} =>
              /\ to_wire' = to_wire
              /\ log'.ret \in DOMAIN objs
              /\ DOMAIN objs' = DOMAIN objs
              /\ \A d \in DOMAIN objs : d # log'.ret => objs'[d] = objs[d]
              /\ LET o == objs[log'.ret]
                     n == objs'[log'.ret]
                 IN n = [o EXCEPT
                           !.fset = IF log'.op = "setter" THEN "chained" ELSE @,
                           !.fget = IF log'.op = "getter" THEN "chained" ELSE @,
                           !.fdel = IF log'.op = "deleter" THEN "chained" ELSE @]
       ]_vars

\* C7 witness: a getter was decorated and a setter chained on it: one registry
\* entry, both accessors present.
C7_Witness ==
  /\ log.op = "setter"
  /\ to_wire = <<1>> /\ Len(objs) = 1
  /\ objs[1].fget = "def" /\ objs[1].fset = "chained"

\* The parser or the write accessor raised in event e of a wire_all call.
InjectionFailure(e) == e.kind = "fset_raise" \/ (e.kind = "fparse" /\ e.val = "<raise>")

\* C9: when the parser or the write accessor raises in function injection of a
\* declaration d, wire_all raises there: no constructor is replaced, the
\* declarations after d in the registry are untouched, and each module-level
\* write accessor before d has been injected once more.
C9_FunctionInjectionFailurePropagates ==
  [][log'.op = "wire_all" =>
       \A k \in DOMAIN log'.events :
         InjectionFailure(log'.events[k]) =>
           /\ log'.raised
           /\ k = Len(log'.events)
           /\ ctor' = ctor
           /\ \A j \in DOMAIN to_wire :
                LET d == to_wire[j]
                    f == PosOf(log'.events[k].decl)
                IN /\ j >= f => injected'[d] = injected[d] /\ objs'[d] = objs[d]
                   /\ (j < f /\ FunctionInjected(d)) =>
                        /\ injected'[d].count = injected[d].count + 1
                        /\ injected'[d].last = Outcome(parser, objs[d].path)
    ]_vars

\* C9 witness: a wire_all call that raised in function injection of the second
\* registered declaration after injecting the first.
C9_Witness ==
  /\ log.op = "wire_all" /\ log.raised
  /\ Len(log.events) = 3
  /\ EvAt(2).kind = "fset" /\ EvAt(2).decl = to_wire[1]
  /\ InjectionFailure(EvAt(3)) /\ EvAt(3).decl = to_wire[2]
  /\ injected[to_wire[1]].count = 1 /\ injected[to_wire[2]].count = 0

\* C10: no operation removes or reorders registry entries, wire_all leaves the
\* registry as it is, and every wire_all call that completes injects every
\* module-level write accessor once more and puts one more wrapper, holding
\* the class's declarations in registry order, around the constructor of
\* every class that owns a declaration.
C10_RegistryKeptAndRewired ==
  [][ /\ Len(to_wire) <= Len(to_wire')
      /\ SubSeq(to_wire', 1, Len(to_wire)) = to_wire
      /\ log'.op = "wire_all" => to_wire' = to_wire
      /\ (log'.op = "wire_all" /\ ~log'.raised) =>
           /\ \A d \in Registered :
                FunctionInjected(d) => injected'[d].count = injected[d].count + 1
           /\ \A c \in Classes :
                LET own == SelectSeq(to_wire, LAMBDA d : objs[d].scope = c)
                IN IF own = << >> THEN ctor'[c] = ctor[c]
                   ELSE ctor'[c] = Append(ctor[c], own)
    ]_vars

\* C10 witness: after two wire_all calls a module-level write accessor has
\* been injected twice and a constructor is wrapped two deep.
C10_Witness ==
  /\ log.op = "wire_all" /\ nWire = 2
  /\ \E d \in Registered : injected[d].count = 2
  /\ \E c \in Classes : Len(ctor[c]) = 2
====
